---- MODULE Spec2Model ----
(***************************************************************************)
(* Access resolution and progressive unlocking of the Fluentory course     *)
(* platform: the CourseAccess ledger (myApp/models.py), the resolver and   *)
(* the source adapters (myApp/utils/access.py), their HTTP callers         *)
(* (myApp/dashboard_views.py, myApp/views.py), the prerequisite evaluator, *)
(* the lesson sequencer and the catalog partitioner.                       *)
(*                                                                         *)
(* Conventions.  `accesses` is the CourseAccess table, its rows grouped by *)
(* (user, course) and each group kept in insertion order: granted_at is    *)
(* auto_now_add, so within a group a later row has a later granted_at, and *)
(* Meta.ordering = ['-granted_at'] is descending position.  Every query of *)
(* the modelled code that orders rows filters on one (user, course), so    *)
(* the order of rows of different groups is never observed.  A row is      *)
(* referred to by its position in its group.  None is modelled by NoTime   *)
(* for datetimes, 0 for row references and NoRef for other references.  A  *)
(* human-readable string is a sequence of tokens, so that "contains" is    *)
(* membership of a token.                                                  *)
(***************************************************************************)
EXTENDS Integers, Sequences, FiniteSets, TLC

\* ------------------------------------------------------------------ bounds
MaxAccesses == 2
MaxTime == 2
MaxBundlePurchases == 1
MaxOrder == 3

\* ------------------------------------------------------- fixed population
Users == {"u1", "u2", "u3"}
Anon == "anon"
Admin == "admin"
Courses == {"c1", "c2", "c3", "c4"}
Pairs == Users \X Courses
NoTime == -9
NoRef == "none"

\* request.user.is_authenticated
IsAuthenticated(user) == user \in Users \cup {Admin}

\* CoursePurchase rows: who bought what.
Purchases == {"p1"}
GiftedPurchases == {"p2"}
PurchaseUser(p) == IF p \in GiftedPurchases THEN "u2" ELSE "u1"
PurchaseCourse(p) == "c1"

\* GiftPurchase rows: the purchase that paid for the gift, the gifted course,
\* the address it was sent to and the expiry date staff gave it.
Gifts == {"g1"}
GiftCoursePurchase(g) == "p2"
GiftCourse(g) == PurchaseCourse(GiftCoursePurchase(g))
GiftRecipientEmail(g) == "ann@X.org"
GiftExpiresAt(g) == 1
UserEmail(user) ==
    CASE user = "u1" -> "Ann@x.org" [] user = "u3" -> "ann@x.org" [] OTHER -> "bob@x.org"

\* str.lower() on the addresses in use
Lower(email) ==
    IF email \in {"Ann@x.org", "ann@X.org"} THEN "ann@x.org" ELSE email

\* Logged-in users whose redeem_gift requests may overlap.
Redeemers == {"u1", "u3"}
RedeemedGift == "g1"

\* Webhook deliveries that may overlap.
Deliveries == {"d1", "d2"}

\* Bundle rows.
Bundles == {"b1", "b2"}
BundleType(b) == IF b = "b1" THEN "fixed" ELSE "pick_your_own"
BundleCourses(b) == IF b = "b1" THEN {"c1", "c2"} ELSE {"c1", "c2", "c3"}

\* Course rows: visibility, status and prerequisite_courses.
Visibility(c) ==
    CASE c = "c1" -> "public" [] c = "c2" -> "private" [] c = "c3" -> "hidden"
      [] c = "c4" -> "members_only"
CourseStatus(c) == IF c = "c3" THEN "coming_soon" ELSE "active"
Prerequisites(c) ==
    CASE c = "c1" -> {} [] c = "c2" -> {"c3"} [] c = "c3" -> {"c1", "c2"}
      [] c = "c4" -> {"c2"}
\* Course.required_quiz_score (NoScore for null)
NoScore == -1
RequiredQuizScore(c) == IF c = "c1" THEN 80 ELSE NoScore
\* Exam.objects.filter(course=course).exists()
HasExam(c) == c = "c2"

\* Lesson rows and their LessonQuiz.
Lessons == 1..4
LessonCourse(l) == IF l <= 3 THEN "c1" ELSE "c2"
CourseLessons(c) == {l \in Lessons : LessonCourse(l) = c}
HasQuiz(l) == l \in {2, 3}
QuizIsRequired(l) == l = 2
QuizQuestions(l) == 2
PassingScore == 70
VideoCompletionThreshold == 90

\* no UserProgress row for the (user, lesson)
NoProgress == [exists |-> FALSE, status |-> "not_started", completed |-> FALSE,
               video_watch_percentage |-> 0]

\* Course.Meta.ordering = ['-created_at']: the order in which .all() yields
\* courses (c1 was created first, c4 last).
CourseOrder == <<"c4", "c3", "c2", "c1">>

\* ------------------------------------------------------- request inputs
\* provider_id and status in the webhook payload
ProviderIds == {"ch_1"}
WebhookStatuses == {"paid", "refunded"}
WebhookPurchaseIds == Purchases \cup {NoRef, "p404"}
\* POST fields of the dashboard views
Learners == {"u1"}
CourseIds == {"c1", "c2"}
GrantTypes == {"manual"}
PostedDays == {"", "1"}
RevokeReasons == {"refund"}
BundlePurchaseIds == {""}
BundleBuyers == {"u1"}
SelectedCourses == {{"c2"}}
BulkUserIds == {<<>>, <<"u9", "u2">>}
BulkCourseIds == {<<"c1", "c1">>, <<"c9", "c2">>}

\* CourseAccess.get_access_type_display
AccessTypeDisplay(t) ==
    CASE t = "purchase" -> "Purchase"
      [] t = "manual" -> "Manual"
      [] t = "cohort" -> "Cohort"
      [] t = "subscription" -> "Subscription"
      [] t = "bundle" -> "Bundle Purchase"

VARIABLES
    now,              \* timezone.now(), in days
    accesses,         \* CourseAccess table: (user, course) -> rows, oldest first
    purchases,        \* CoursePurchase rows: [status, provider_id]
    bundle_purchases, \* BundlePurchase table, insertion order
    lesson_order,     \* Lesson.order of every lesson
    progress,         \* UserProgress table: (user, lesson) -> row
    quiz_attempts,    \* LessonQuizAttempt rows: <<user, lesson, score, passed>>
    certifications,   \* Certification table: (user, course) -> status
    gifts,            \* GiftPurchase table: gift -> [status, recipient_user]
    deliveries,       \* webhook deliveries in flight: delivery -> [pc, access, memory]
    enrollments,      \* CourseEnrollment table: the (user, course) pairs enrolled
    redemptions       \* redeem_gift requests in flight: user -> [pc, gift]

ledgerVars == <<now, accesses, purchases, bundle_purchases>>
learnVars == <<lesson_order, progress, quiz_attempts, certifications>>
flowVars == <<gifts, deliveries, enrollments, redemptions>>
vars == <<now, accesses, purchases, bundle_purchases,
          lesson_order, progress, quiz_attempts, certifications, gifts, deliveries,
          enrollments, redemptions>>

\* The tables a request reads.
DB == [accesses |-> accesses, purchases |-> purchases,
       bundle_purchases |-> bundle_purchases]

\* ------------------------------------------------------------- querysets
\* CourseAccess.objects.filter(user=, course=)
PairRows(accs, user, course) == DOMAIN accs[<<user, course>>]

\* QuerySet.first() under Meta.ordering = ['-granted_at']; 0 stands for None.
First(rows) ==
    IF rows = {} THEN 0 ELSE CHOOSE i \in rows : \A j \in rows : j <= i

\* CourseAccess.objects.count()
RowCount(accs) ==
    Cardinality(UNION {{<<pr, k>> : k \in DOMAIN accs[pr]} : pr \in Pairs})

\* CourseAccess.get_source_display
GetSourceDisplay(db, r) ==
    IF r.bundle_purchase # 0
    THEN <<"Bundle:", db.bundle_purchases[r.bundle_purchase].bundle>>
    ELSE IF r.course_purchase # NoRef
    THEN <<"Purchase:", IF db.purchases[r.course_purchase].provider_id # ""
                        THEN db.purchases[r.course_purchase].provider_id
                        ELSE r.course_purchase>>
    ELSE IF r.cohort # NoRef THEN <<"Cohort:", r.cohort>>
    ELSE IF r.access_type = "manual"
    THEN <<"Manual", "(by", IF r.granted_by # NoRef THEN r.granted_by ELSE "Admin", ")">>
    ELSE IF r.purchase_id # NoRef /\ r.purchase_id # ""
    THEN <<"Purchase:", r.purchase_id>>
    ELSE <<AccessTypeDisplay(r.access_type)>>

\* Variant: only the most recently granted row of the pair is looked at.
ActiveAccessesLatestOnly(accs, t, user, course) ==
    {i \in PairRows(accs, user, course) :
        /\ i = First(PairRows(accs, user, course))
        /\ accs[<<user, course>>][i].status = "unlocked"
        /\ ~(accs[<<user, course>>][i].expires_at # NoTime
             /\ accs[<<user, course>>][i].expires_at < t)}

\* The unlocked rows of the pair that the exclude() of has_course_access keeps.
ActiveAccesses(accs, t, user, course) ==
    {i \in PairRows(accs, user, course) :
        /\ accs[<<user, course>>][i].status = "unlocked"
        /\ ~(accs[<<user, course>>][i].expires_at # NoTime
             /\ accs[<<user, course>>][i].expires_at < t)}

\* Variant: every row of the pair whose expires_at has passed is marked.
MarkExpiredEveryPassedRow(accs, t, user, course, any) ==
    [accs EXCEPT ![<<user, course>>] =
        [i \in DOMAIN @ |->
            IF @[i].expires_at # NoTime /\ t > @[i].expires_at
            THEN [@[i] EXCEPT !.status = "expired"] ELSE @[i]]]

\* Variant: every row of the pair is marked, lifetime rows included.
MarkExpiredEveryRow(accs, t, user, course, any) ==
    [accs EXCEPT ![<<user, course>>] =
        [i \in DOMAIN @ |-> [@[i] EXCEPT !.status = "expired"]]]

\* has_course_access, lines 41-42: any_access.status = 'expired' and save()
MarkExpired(accs, t, user, course, any) ==
    [accs EXCEPT ![<<user, course>>][any].status = "expired"]

\* Variant: the fall-through of has_course_access answers as for an expired row.
NoAccessFoundAsExpired(accs) ==
    [granted |-> FALSE, record |-> 0, reason |-> <<"Access", "has", "expired">>,
     accesses |-> accs]

\* has_course_access, line 45: return False, None, "No access found"
NoAccessFound(accs) ==
    [granted |-> FALSE, record |-> 0, reason |-> <<"No", "access", "found">>,
     accesses |-> accs]

\* has_course_access: the returned triple and the table it leaves behind.
HasCourseAccess(db, t, user, course) ==
    IF ~IsAuthenticated(user)
    THEN [granted |-> FALSE, record |-> 0,
          reason |-> <<"Not", "authenticated">>, accesses |-> db.accesses]
    ELSE
    LET accs == db.accesses
        rows == accs[<<user, course>>]
        active == ActiveAccesses(accs, t, user, course)
        any == First(PairRows(accs, user, course))
    IN  IF active # {}
        THEN [granted |-> TRUE, record |-> First(active),
              reason |-> <<"Access", "granted", "via">>
                         \o GetSourceDisplay(db, rows[First(active)]),
              accesses |-> accs]
        ELSE IF any # 0 /\ rows[any].status = "expired"
        THEN [granted |-> FALSE, record |-> any,
              reason |-> <<"Access", "has", "expired">>, accesses |-> accs]
        ELSE IF any # 0 /\ rows[any].status = "revoked"
        THEN [granted |-> FALSE, record |-> any,
              reason |-> <<"Access", "revoked:",
                           IF rows[any].revocation_reason # ""
                           THEN rows[any].revocation_reason
                           ELSE "No reason provided">>,
              accesses |-> accs]
        ELSE IF any # 0 /\ rows[any].expires_at # NoTime /\ t > rows[any].expires_at
        THEN [granted |-> FALSE, record |-> any,
              reason |-> <<"Access", "has", "expired">>,
              accesses |-> MarkExpired(accs, t, user, course, any)]
        ELSE NoAccessFound(accs)

\* grant_course_access: CourseAccess.objects.create(..., status='unlocked')
NewAccess(user, course, access_type, granted_by, bundle_purchase, purchase_id, expires_at) ==
    [user |-> user, course |-> course, access_type |-> access_type,
     status |-> "unlocked", granted_by |-> granted_by,
     bundle_purchase |-> bundle_purchase,
     course_purchase |-> NoRef, cohort |-> NoRef, purchase_id |-> purchase_id,
     expires_at |-> expires_at, revoked_at |-> NoTime, revoked_by |-> NoRef,
     revocation_reason |-> ""]

GrantCourseAccess(accs, user, course, access_type, granted_by, bundle_purchase, purchase_id, expires_at) ==
    [accs EXCEPT ![<<user, course>>] =
        Append(@, NewAccess(user, course, access_type, granted_by, bundle_purchase,
                            purchase_id, expires_at))]

\* Variant: the oldest unlocked row of the pair is the one revoked.
RevokeTargetOldest(accs, user, course) ==
    LET unlocked == {i \in PairRows(accs, user, course) :
                        accs[<<user, course>>][i].status = "unlocked"}
    IN  IF unlocked = {} THEN 0 ELSE CHOOSE i \in unlocked : \A j \in unlocked : i <= j

\* revoke_course_access, lines 74-78: the row it picks (0 for None)
RevokeTarget(accs, user, course) ==
    First({i \in PairRows(accs, user, course) :
              accs[<<user, course>>][i].status = "unlocked"})

\* Variant: the reason passed in is not stored on the row.
RevokeCourseAccessReasonDropped(accs, t, user, course, revoked_by, reason) ==
    LET access == RevokeTarget(accs, user, course)
    IN  IF access # 0
        THEN [record |-> access,
              accesses |-> [accs EXCEPT ![<<user, course>>][access].status = "revoked",
                                        ![<<user, course>>][access].revoked_at = t,
                                        ![<<user, course>>][access].revoked_by = revoked_by]]
        ELSE [record |-> 0, accesses |-> accs]

\* revoke_course_access: the row it returns (0 for None) and the table.
RevokeCourseAccess(accs, t, user, course, revoked_by, reason) ==
    LET access == RevokeTarget(accs, user, course)
    IN  IF access # 0
        THEN [record |-> access,
              accesses |-> [accs EXCEPT ![<<user, course>>][access].status = "revoked",
                                        ![<<user, course>>][access].revoked_at = t,
                                        ![<<user, course>>][access].revoked_by = revoked_by,
                                        ![<<user, course>>][access].revocation_reason = reason]]
        ELSE [record |-> 0, accesses |-> accs]

\* Variant: no lookup of an existing row of the purchase, a row per delivery.
GrantPurchaseAccessAlwaysCreates(db, user, course, p) ==
    LET created == GrantCourseAccess(db.accesses, user, course, "purchase", NoRef, 0,
                       IF db.purchases[p].provider_id # ""
                       THEN db.purchases[p].provider_id ELSE p,
                       NoTime)
        new == Len(created[<<user, course>>])
    IN  [record |-> new,
         accesses |-> [created EXCEPT ![<<user, course>>][new].course_purchase = p]]

\* grant_purchase_access: the row it returns and the table.
GrantPurchaseAccess(db, user, course, p) ==
    LET accs == db.accesses
        existing_access == First({i \in PairRows(accs, user, course) :
                                      accs[<<user, course>>][i].course_purchase = p})
        created == GrantCourseAccess(accs, user, course, "purchase", NoRef, 0,
                       IF db.purchases[p].provider_id # ""
                       THEN db.purchases[p].provider_id ELSE p,
                       NoTime)
        new == Len(created[<<user, course>>])
    IN  IF existing_access # 0
        THEN [record |-> existing_access,
              accesses |-> IF accs[<<user, course>>][existing_access].status # "unlocked"
                           THEN [accs EXCEPT
                                    ![<<user, course>>][existing_access].status = "unlocked"]
                           ELSE accs]
        ELSE [record |-> new,
              accesses |-> [created EXCEPT ![<<user, course>>][new].course_purchase = p]]

\* grant_bundle_access, lines 185-193: the course set the bundle resolves to.
CoursesToGrant(db, bp) ==
    LET bundle == db.bundle_purchases[bp].bundle
    IN  IF BundleType(bundle) = "fixed" THEN BundleCourses(bundle)
        ELSE IF BundleType(bundle) = "pick_your_own"
        THEN db.bundle_purchases[bp].selected_courses
        ELSE IF BundleType(bundle) = "tiered" THEN BundleCourses(bundle)
        ELSE {}

\* Variant: the loop without the lookup of an existing row of the purchase.
RECURSIVE BundleLoopNoLookup(_, _, _, _, _, _)
BundleLoopNoLookup(accs, db, user, bp, todo, k) ==
    IF k > Len(CourseOrder) THEN accs
    ELSE IF CourseOrder[k] \in todo
    THEN BundleLoopNoLookup(GrantCourseAccess(accs, user, CourseOrder[k], "bundle", NoRef,
                                              bp, db.bundle_purchases[bp].purchase_id,
                                              NoTime),
                            db, user, bp, todo, k + 1)
    ELSE BundleLoopNoLookup(accs, db, user, bp, todo, k + 1)

\* grant_bundle_access, lines 196-213: the loop, from position k of CourseOrder.
RECURSIVE BundleLoop(_, _, _, _, _, _)
BundleLoop(accs, db, user, bp, todo, k) ==
    IF k > Len(CourseOrder) THEN accs
    ELSE LET course == CourseOrder[k]
             existing == First({i \in PairRows(accs, user, course) :
                                   accs[<<user, course>>][i].bundle_purchase = bp})
         IN  IF course \in todo /\ existing = 0
             THEN BundleLoop(GrantCourseAccess(accs, user, course, "bundle", NoRef, bp,
                                               db.bundle_purchases[bp].purchase_id, NoTime),
                             db, user, bp, todo, k + 1)
             ELSE BundleLoop(accs, db, user, bp, todo, k + 1)

\* grant_bundle_access: the table it leaves; len(granted_accesses) is the growth.
GrantBundleAccess(db, user, bp) ==
    BundleLoop(db.accesses, db, user, bp, CoursesToGrant(db, bp), 1)

\* bulk_grant_access_view, lines 1508-1533: the nested loops over the posted
\* id lists, at (user_ids[i], course_ids[j]).
RECURSIVE BulkLoop(_, _, _, _, _, _, _)
BulkLoop(accs, user_ids, course_ids, access_type, expires_at, i, j) ==
    IF i > Len(user_ids) THEN accs
    ELSE IF j > Len(course_ids) \/ user_ids[i] \notin Users
    THEN BulkLoop(accs, user_ids, course_ids, access_type, expires_at, i + 1, 1)
    ELSE IF course_ids[j] \notin Courses
    THEN BulkLoop(accs, user_ids, course_ids, access_type, expires_at, i, j + 1)
    ELSE LET user == user_ids[i]
             course == course_ids[j]
             existing == First({r \in PairRows(accs, user, course) :
                                   accs[<<user, course>>][r].status = "unlocked"})
         IN  IF existing = 0
             THEN BulkLoop(GrantCourseAccess(accs, user, course, access_type, Admin, 0,
                                             NoRef, expires_at),
                           user_ids, course_ids, access_type, expires_at, i, j + 1)
             ELSE BulkLoop(accs, user_ids, course_ids, access_type, expires_at, i, j + 1)

\* ------------------------------------------------------------------ state
Init ==
    /\ now = 0
    /\ accesses = [pr \in Pairs |-> <<>>]
    /\ purchases = [p \in Purchases \cup GiftedPurchases |->
                        [status |-> "pending", provider_id |-> ""]]
    /\ bundle_purchases = <<>>
    /\ lesson_order = [l \in Lessons |-> l]
    /\ progress = [ul \in Users \X Lessons |-> NoProgress]
    /\ quiz_attempts = {}
    /\ certifications = [pr \in Pairs |-> "none"]
    /\ gifts = [g \in Gifts |-> [status |-> "pending", recipient_user |-> NoRef]]
    /\ deliveries = [d \in Deliveries |-> [pc |-> "idle", access |-> 0, memory |-> <<>>]]
    /\ enrollments = {}
    /\ redemptions = [u \in Redeemers |->
                         [pc |-> "idle", gift |-> [status |-> "pending",
                                                   recipient_user |-> NoRef]]]

\* time passes
Tick ==
    /\ now < MaxTime
    /\ now' = now + 1
    /\ UNCHANGED <<learnVars, flowVars, accesses, purchases, bundle_purchases>>

\* a page view resolving access (course_detail, student_course_progress, ...)
ResolveAccess(user, course) ==
    /\ accesses' = HasCourseAccess(DB, now, user, course).accesses
    /\ UNCHANGED <<learnVars, flowVars, now, purchases, bundle_purchases>>

\* int(expires_in_days), or None when the field is empty or not a number
ExpiresAt(t, expires_in_days) ==
    IF expires_in_days = "" THEN NoTime
    ELSE IF expires_in_days = "1" THEN t + 1
    ELSE NoTime

\* grant_course_access_view: the JSON response and the table it leaves.
GrantCourseAccessViewResult(accs, t, user, course, access_type, expires_in_days) ==
    IF course = NoRef
    THEN [success |-> FALSE, http |-> 400, accesses |-> accs]
    ELSE [success |-> TRUE, http |-> 200,
          accesses |-> GrantCourseAccess(accs, user, course, access_type, Admin, 0,
                                         NoRef, ExpiresAt(t, expires_in_days))]

GrantCourseAccessView(user, course, access_type, expires_in_days) ==
    LET res == GrantCourseAccessViewResult(accesses, now, user, course, access_type,
                                           expires_in_days)
    IN  /\ RowCount(res.accesses) <= MaxAccesses
        /\ accesses' = res.accesses
        /\ UNCHANGED <<learnVars, flowVars, now, purchases, bundle_purchases>>

\* revoke_course_access_view: the JSON response and the table it leaves.
RevokeCourseAccessViewResult(accs, t, user, course, reason) ==
    IF course = NoRef
    THEN [success |-> FALSE, http |-> 400, accesses |-> accs]
    ELSE LET res == RevokeCourseAccess(accs, t, user, course, Admin, reason)
         IN  IF res.record # 0
             THEN [success |-> TRUE, http |-> 200, accesses |-> res.accesses]
             ELSE [success |-> FALSE, http |-> 400, accesses |-> res.accesses]

RevokeCourseAccessView(user, course, reason) ==
    /\ accesses' = RevokeCourseAccessViewResult(accesses, now, user, course, reason).accesses
    /\ UNCHANGED <<learnVars, flowVars, now, purchases, bundle_purchases>>

\* bulk_grant_access_view
BulkGrantAccessView(user_ids, course_ids, access_type, expires_in_days) ==
    LET res == IF user_ids = <<>> \/ course_ids = <<>>
               THEN accesses
               ELSE BulkLoop(accesses, user_ids, course_ids, access_type,
                             ExpiresAt(now, expires_in_days), 1, 1)
    IN  /\ RowCount(res) <= MaxAccesses
        /\ accesses' = res
        /\ UNCHANGED <<learnVars, flowVars, now, purchases, bundle_purchases>>

\* GiftPurchase.objects.get(course_purchase=purchase); NoRef for DoesNotExist
GiftOfPurchase(p) ==
    IF \E g \in Gifts : GiftCoursePurchase(g) = p
    THEN CHOOSE g \in Gifts : GiftCoursePurchase(g) = p
    ELSE NoRef

\* purchase_webhook; email_ok is the outcome of send_gift_email
PurchaseWebhook(p, provider_id, status, email_ok) ==
    IF p \notin DOMAIN purchases
    THEN UNCHANGED <<learnVars, flowVars, now, accesses, purchases, bundle_purchases>>
    ELSE LET saved == [purchases EXCEPT ![p] = [status |-> status,
                                                 provider_id |-> provider_id]]
             gift == GiftOfPurchase(p)
             res == GrantPurchaseAccess([DB EXCEPT !.purchases = saved],
                                        PurchaseUser(p), PurchaseCourse(p), p)
         IN  /\ purchases' = saved
             /\ IF status = "paid" /\ gift # NoRef
                THEN /\ gifts' = IF email_ok THEN [gifts EXCEPT ![gift].status = "sent"]
                                 ELSE gifts
                     /\ accesses' = accesses
                ELSE IF status = "paid"
                THEN /\ RowCount(res.accesses) <= MaxAccesses
                     /\ accesses' = res.accesses
                     /\ gifts' = gifts
                ELSE /\ accesses' = accesses
                     /\ gifts' = gifts
             /\ UNCHANGED <<learnVars, deliveries, enrollments, redemptions, now, bundle_purchases>>

\* Variant: the addresses are compared as typed.
EmailMatchesAsTyped(user, g) == UserEmail(user) = GiftRecipientEmail(g)

\* redeem_gift, line 3388: request.user.email.lower() == gift.recipient_email.lower()
EmailMatches(user, g) == Lower(UserEmail(user)) = Lower(GiftRecipientEmail(g))

\* GiftPurchase.is_expired
GiftIsExpired(t, g) == GiftExpiresAt(g) # NoTime /\ t > GiftExpiresAt(g)

\* redeem_gift: the page it answers with and the tables it leaves.
RedeemGiftResult(db, gfts, t, user, g) ==
    IF gfts[g].recipient_user # NoRef
    THEN [page |-> IF IsAuthenticated(user) /\ user = gfts[g].recipient_user
                   THEN "student_dashboard" ELSE "login",
          redeemed |-> FALSE, accesses |-> db.accesses, gifts |-> gfts]
    ELSE IF GiftIsExpired(t, g)
    THEN [page |-> "gift_expired", redeemed |-> FALSE, accesses |-> db.accesses,
          gifts |-> [gfts EXCEPT ![g].status = "expired"]]
    ELSE IF gfts[g].status # "sent"
    THEN [page |-> "gift_error", redeemed |-> FALSE, accesses |-> db.accesses,
          gifts |-> gfts]
    ELSE IF IsAuthenticated(user) /\ EmailMatches(user, g)
    THEN [page |-> "student_dashboard", redeemed |-> TRUE,
          accesses |-> GrantPurchaseAccess(db, user, GiftCourse(g),
                                           GiftCoursePurchase(g)).accesses,
          gifts |-> [gfts EXCEPT ![g].recipient_user = user, ![g].status = "redeemed"]]
    ELSE [page |-> "gift_redeem", redeemed |-> FALSE, accesses |-> db.accesses,
          gifts |-> gfts]

RedeemGift(user, g) ==
    LET res == RedeemGiftResult(DB, gifts, now, user, g)
    IN  /\ RowCount(res.accesses) <= MaxAccesses
        /\ accesses' = res.accesses
        /\ gifts' = res.gifts
        /\ UNCHANGED <<learnVars, deliveries, enrollments, redemptions, now, purchases, bundle_purchases>>

\* grant_bundle_access_view: a new BundlePurchase, then grant_bundle_access
GrantBundleAccessView(user, bundle, purchase_id) ==
    IF bundle = NoRef
    THEN UNCHANGED <<learnVars, flowVars, now, accesses, purchases, bundle_purchases>>
    ELSE LET bps == Append(bundle_purchases,
                           [user |-> user, bundle |-> bundle, purchase_id |-> purchase_id,
                            selected_courses |-> {}])
             res == GrantBundleAccess([DB EXCEPT !.bundle_purchases = bps], user, Len(bps))
         IN  /\ Len(bundle_purchases) < MaxBundlePurchases
             /\ RowCount(res) <= MaxAccesses
             /\ bundle_purchases' = bps
             /\ accesses' = res
             /\ UNCHANGED <<learnVars, flowVars, now, purchases>>

\* BundlePurchaseAdmin: staff record a purchase with the buyer's selection
AdminAddBundlePurchase(user, bundle, purchase_id, selected) ==
    /\ Len(bundle_purchases) < MaxBundlePurchases
    /\ bundle_purchases' = Append(bundle_purchases,
                                  [user |-> user, bundle |-> bundle,
                                   purchase_id |-> purchase_id,
                                   selected_courses |-> selected])
    /\ UNCHANGED <<learnVars, flowVars, now, accesses, purchases>>

\* grant_bundle_access for a recorded BundlePurchase (a delivery or a redelivery
\* of the bundle-purchased event)
GrantBundleAccessCall(bp) ==
    LET res == GrantBundleAccess(DB, bundle_purchases[bp].user, bp)
    IN  /\ RowCount(res) <= MaxAccesses
        /\ accesses' = res
        /\ UNCHANGED <<learnVars, flowVars, now, purchases, bundle_purchases>>

Next ==
    \/ Tick
    \/ \E u \in Learners \cup {Anon}, c \in CourseIds : ResolveAccess(u, c)
    \/ \E u \in Learners, c \in CourseIds \cup {NoRef}, t \in GrantTypes, d \in PostedDays :
          GrantCourseAccessView(u, c, t, d)
    \/ \E u \in Learners, c \in CourseIds \cup {NoRef}, r \in RevokeReasons :
          RevokeCourseAccessView(u, c, r)
    \/ \E us \in BulkUserIds, cs \in BulkCourseIds, t \in GrantTypes, d \in PostedDays :
          BulkGrantAccessView(us, cs, t, d)

Spec == Init /\ [][Next]_vars

\* The sales side: payment webhooks, bundle purchases and their redeliveries,
\* with staff revoking what was sold.
NextSales ==
    \/ Tick
    \/ \E u \in Learners, c \in CourseIds, t \in GrantTypes :
          GrantCourseAccessView(u, c, t, "")
    \/ \E u \in Learners, c \in CourseIds, r \in RevokeReasons : RevokeCourseAccessView(u, c, r)
    \/ \E p \in WebhookPurchaseIds, i \in ProviderIds, s \in WebhookStatuses :
          PurchaseWebhook(p, i, s, TRUE)
    \/ \E u \in BundleBuyers, b \in Bundles \cup {NoRef}, i \in BundlePurchaseIds :
          GrantBundleAccessView(u, b, i)
    \/ \E u \in BundleBuyers, b \in {x \in Bundles : BundleType(x) = "pick_your_own"},
          i \in BundlePurchaseIds, sel \in SelectedCourses :
          AdminAddBundlePurchase(u, b, i, sel)
    \/ \E bp \in DOMAIN bundle_purchases : GrantBundleAccessCall(bp)

SpecSales == Init /\ [][NextSales]_vars

\* ------------------------------------------- overlapping webhook deliveries
\* The purchase whose confirmation the provider delivers more than once.
DeliveredPurchase == "p1"
DeliveredProviderId == "ch_1"

\* purchase_webhook, lines 3682-3698: the purchase is loaded and saved as paid
DeliveryReceive(d) ==
    /\ deliveries[d].pc = "idle"
    /\ purchases' = [purchases EXCEPT ![DeliveredPurchase] =
                        [status |-> "paid", provider_id |-> DeliveredProviderId]]
    /\ deliveries' = [deliveries EXCEPT ![d].pc = "lookup"]
    /\ UNCHANGED <<learnVars, gifts, enrollments, redemptions, now, accesses, bundle_purchases>>

\* grant_purchase_access, lines 251-262: the lookup of the purchase's row and,
\* when there is one, its re-unlocking
DeliveryLookup(d) ==
    LET user == PurchaseUser(DeliveredPurchase)
        course == PurchaseCourse(DeliveredPurchase)
        existing_access == First({i \in PairRows(accesses, user, course) :
            accesses[<<user, course>>][i].course_purchase = DeliveredPurchase})
    IN  /\ deliveries[d].pc = "lookup"
        /\ IF existing_access # 0
           THEN /\ accesses' = IF accesses[<<user, course>>][existing_access].status
                                   # "unlocked"
                                THEN [accesses EXCEPT
                                        ![<<user, course>>][existing_access].status =
                                            "unlocked"]
                                ELSE accesses
                /\ deliveries' = [deliveries EXCEPT ![d].pc = "done",
                                                     ![d].access = existing_access]
           ELSE /\ accesses' = accesses
                /\ deliveries' = [deliveries EXCEPT ![d].pc = "create"]
        /\ UNCHANGED <<learnVars, gifts, enrollments, redemptions, now, purchases, bundle_purchases>>

\* grant_purchase_access, lines 265-272: grant_course_access inserts the row,
\* not yet linked to the purchase
DeliveryCreate(d) ==
    LET user == PurchaseUser(DeliveredPurchase)
        course == PurchaseCourse(DeliveredPurchase)
        created == GrantCourseAccess(accesses, user, course, "purchase", NoRef, 0,
                       IF purchases[DeliveredPurchase].provider_id # ""
                       THEN purchases[DeliveredPurchase].provider_id
                       ELSE DeliveredPurchase,
                       NoTime)
        new == Len(created[<<user, course>>])
    IN  /\ deliveries[d].pc = "create"
        /\ RowCount(created) <= MaxAccesses
        /\ accesses' = created
        /\ deliveries' = [deliveries EXCEPT ![d].pc = "link", ![d].access = new,
                              ![d].memory = <<created[<<user, course>>][new]>>]
        /\ UNCHANGED <<learnVars, gifts, enrollments, redemptions, now, purchases, bundle_purchases>>

\* grant_purchase_access, lines 275-276: access.course_purchase = purchase and
\* access.save(), which writes every field of the object held in memory
DeliveryLink(d) ==
    LET user == PurchaseUser(DeliveredPurchase)
        course == PurchaseCourse(DeliveredPurchase)
    IN  /\ deliveries[d].pc = "link"
        /\ accesses' = [accesses EXCEPT ![<<user, course>>][deliveries[d].access] =
                           [deliveries[d].memory[1] EXCEPT
                               !.course_purchase = DeliveredPurchase]]
        /\ deliveries' = [deliveries EXCEPT ![d].pc = "done"]
        /\ UNCHANGED <<learnVars, gifts, enrollments, redemptions, now, purchases, bundle_purchases>>

\* Two deliveries of one confirmation, their queries interleaved, while staff
\* may revoke and time passes.
NextDeliveries ==
    \/ Tick
    \/ \E d \in Deliveries : DeliveryReceive(d)
    \/ \E d \in Deliveries : DeliveryLookup(d)
    \/ \E d \in Deliveries : DeliveryCreate(d)
    \/ \E d \in Deliveries : DeliveryLink(d)
    \/ \E u \in Learners, c \in CourseIds, r \in RevokeReasons : RevokeCourseAccessView(u, c, r)

SpecDeliveries == Init /\ [][NextDeliveries]_vars

\* ---------------------------------------------- overlapping redemptions
\* redeem_gift, lines 3364-3387: the gift is loaded and the checks are made on
\* the object in memory; an expired gift is saved as expired
RedeemLoad(user) ==
    LET g == RedeemedGift
        gift == gifts[g]
    IN  /\ redemptions[user].pc = "idle"
        /\ IF gift.recipient_user # NoRef
           THEN /\ gifts' = gifts
                /\ redemptions' = [redemptions EXCEPT ![user] = [pc |-> "done", gift |-> gift]]
           ELSE IF GiftIsExpired(now, g)
           THEN /\ gifts' = [gifts EXCEPT ![g] = [gift EXCEPT !.status = "expired"]]
                /\ redemptions' = [redemptions EXCEPT ![user] = [pc |-> "done", gift |-> gift]]
           ELSE IF gift.status # "sent"
           THEN /\ gifts' = gifts
                /\ redemptions' = [redemptions EXCEPT ![user] = [pc |-> "done", gift |-> gift]]
           ELSE /\ gifts' = gifts
                /\ redemptions' = [redemptions EXCEPT ![user] =
                                      [pc |-> IF EmailMatches(user, g) THEN "grant" ELSE "done",
                                       gift |-> gift]]
        /\ UNCHANGED <<learnVars, deliveries, enrollments, now, accesses, purchases,
                       bundle_purchases>>

\* redeem_gift, lines 3389-3390: grant_purchase_access for the requesting user
RedeemGrant(user) ==
    LET g == RedeemedGift
        res == GrantPurchaseAccess(DB, user, GiftCourse(g), GiftCoursePurchase(g))
    IN  /\ redemptions[user].pc = "grant"
        /\ RowCount(res.accesses) <= MaxAccesses
        /\ accesses' = res.accesses
        /\ redemptions' = [redemptions EXCEPT ![user].pc = "save"]
        /\ UNCHANGED <<learnVars, gifts, deliveries, enrollments, now, purchases,
                       bundle_purchases>>

\* redeem_gift, lines 3393-3396: recipient_user, status and redeemed_at are set
\* on the object in memory and gift.save() writes every field of it
RedeemSave(user) ==
    /\ redemptions[user].pc = "save"
    /\ gifts' = [gifts EXCEPT ![RedeemedGift] =
                    [redemptions[user].gift EXCEPT !.recipient_user = user,
                                                   !.status = "redeemed"]]
    /\ redemptions' = [redemptions EXCEPT ![user].pc = "done"]
    /\ UNCHANGED <<learnVars, deliveries, enrollments, now, accesses, purchases,
                   bundle_purchases>>

\* The gift is paid and mailed, then two users whose address matches request
\* its redemption, their queries interleaved.
NextRedemptions ==
    \/ Tick
    \/ \E p \in GiftedPurchases, i \in ProviderIds, s \in WebhookStatuses, ok \in BOOLEAN :
          PurchaseWebhook(p, i, s, ok)
    \/ \E u \in Redeemers : RedeemLoad(u)
    \/ \E u \in Redeemers : RedeemGrant(u)
    \/ \E u \in Redeemers : RedeemSave(u)
    \/ \E u \in Learners, c \in CourseIds, r \in RevokeReasons : RevokeCourseAccessView(u, c, r)

SpecRedemptions == Init /\ [][NextRedemptions]_vars

\* Gifts: the payment of a gift is confirmed, the gift is mailed, people try
\* to redeem it before and after its expiry, staff revoke what it gave.
NextGifts ==
    \/ Tick
    \/ \E p \in GiftedPurchases, i \in ProviderIds, s \in WebhookStatuses, ok \in BOOLEAN :
          PurchaseWebhook(p, i, s, ok)
    \/ \E u \in Users \cup {Anon}, g \in Gifts : RedeemGift(u, g)
    \/ \E u \in Learners, c \in CourseIds, t \in GrantTypes :
          GrantCourseAccessView(u, c, t, "")
    \/ \E u \in Learners, c \in CourseIds, r \in RevokeReasons : RevokeCourseAccessView(u, c, r)

SpecGifts == Init /\ [][NextGifts]_vars

\* ------------------------------------------------------ lesson sequencer
\* (order, id) of lesson a sorts before that of lesson b
SortsBefore(ord, a, b) == ord[a] < ord[b] \/ (ord[a] = ord[b] /\ a < b)

\* course.lessons.order_by('order', 'id'), as a list
OrderedLessons(ord, course) ==
    LET ls == CourseLessons(course)
        n == Cardinality(ls)
    IN  IF n = 0 THEN <<>>
        ELSE CHOOSE s \in [1..n -> ls] :
                /\ \A i, j \in 1..n : i # j => s[i] # s[j]
                /\ \A i, j \in 1..n : i < j => SortsBefore(ord, s[i], s[j])

\* lesson_detail, lines 760-766: ids of the user's completed lessons of the course
CompletedLessons(prog, user, course) ==
    {l \in CourseLessons(course) : prog[<<user, l>>].exists /\ prog[<<user, l>>].completed}

\* Variant: the filter keeps only order__lt, without the id tie-break.
PreviousLessonsOrderOnly(ord, course, current_lesson) ==
    {l \in CourseLessons(course) : ord[l] < ord[current_lesson]}

\* lesson_detail, lines 791-794: all_lessons.filter(Q(order__lt) | Q(order=, id__lt))
PreviousLessons(ord, course, current_lesson) ==
    {l \in CourseLessons(course) :
        \/ ord[l] < ord[current_lesson]
        \/ (ord[l] = ord[current_lesson] /\ l < current_lesson)}

\* lesson_detail, lines 782-804: accessible_lessons
AccessibleLessons(prog, ord, user, course) ==
    LET all_lessons == OrderedLessons(ord, course)
    IN  IF all_lessons = <<>> THEN {}
        ELSE {all_lessons[1]} \cup
             {all_lessons[k] : k \in {i \in 2..Len(all_lessons) :
                 \A prev \in PreviousLessons(ord, course, all_lessons[i]) :
                     prev \in CompletedLessons(prog, user, course)}}

\* Variant: the redirect goes to the incomplete lesson of lowest id rather than
\* the first one of the canonical order.
LessonDetailResultLowestId(prog, ord, user, course, lesson) ==
    LET all_lessons == OrderedLessons(ord, course)
        lesson_locked == lesson \notin AccessibleLessons(prog, ord, user, course)
        incomplete == CourseLessons(course) \ CompletedLessons(prog, user, course)
        first_incomplete ==
            IF incomplete = {} THEN 0
            ELSE CHOOSE l \in incomplete : \A m \in incomplete : l <= m
    IN  IF all_lessons # <<>> /\ lesson_locked /\ first_incomplete # 0
        THEN [locked |-> TRUE, redirect |-> first_incomplete]
        ELSE [locked |-> all_lessons # <<>> /\ lesson_locked, redirect |-> 0]

\* lesson_detail, lines 806-822: whether the lesson is locked and the lesson the
\* request is redirected to (0 when it is served).
LessonDetailResult(prog, ord, user, course, lesson) ==
    LET all_lessons == OrderedLessons(ord, course)
        lesson_locked == lesson \notin AccessibleLessons(prog, ord, user, course)
        incomplete == {i \in DOMAIN all_lessons :
                          all_lessons[i] \notin CompletedLessons(prog, user, course)}
        first_incomplete ==
            IF incomplete = {} THEN 0
            ELSE all_lessons[CHOOSE i \in incomplete : \A j \in incomplete : i <= j]
    IN  IF all_lessons # <<>> /\ lesson_locked /\ first_incomplete # 0
        THEN [locked |-> TRUE, redirect |-> first_incomplete]
        ELSE [locked |-> all_lessons # <<>> /\ lesson_locked, redirect |-> 0]

\* lesson_detail as routed: login_required, then the lock of the lesson; the
\* page served is the login redirect, the redirect to the first incomplete
\* lesson, or the lesson itself.
LessonDetailPage(prog, ord, user, course, lesson) ==
    LET result == LessonDetailResult(prog, ord, user, course, lesson)
    IN  IF ~IsAuthenticated(user)
        THEN [page |-> "login", lesson |-> 0]
        ELSE IF result.redirect # 0
        THEN [page |-> "redirect", lesson |-> result.redirect]
        ELSE [page |-> "lesson", lesson |-> lesson]

\* UserProgress.update_status
UpdateStatus(row) ==
    IF row.video_watch_percentage >= VideoCompletionThreshold
    THEN [row EXCEPT !.status = "completed", !.completed = TRUE]
    ELSE IF row.video_watch_percentage > 0
    THEN [row EXCEPT !.status = "in_progress"]
    ELSE [row EXCEPT !.status = "not_started"]

\* update_video_progress
UpdateVideoProgress(user, lesson, watch_percentage) ==
    /\ progress' = [progress EXCEPT ![<<user, lesson>>] =
                       UpdateStatus([@ EXCEPT !.exists = TRUE,
                                              !.video_watch_percentage = watch_percentage])]
    /\ UNCHANGED <<ledgerVars, flowVars, lesson_order, quiz_attempts, certifications>>

\* lesson_quiz_view, POST: the attempt is scored and recorded
LessonQuizView(user, lesson, correct) ==
    LET total == QuizQuestions(lesson)
        score == IF total > 0 THEN (correct * 100) \div total ELSE 0
    IN  /\ HasQuiz(lesson)
        /\ quiz_attempts' = quiz_attempts \cup {<<user, lesson, score, score >= PassingScore>>}
        /\ UNCHANGED <<ledgerVars, flowVars, lesson_order, progress, certifications>>

\* Variant: any attempt at the quiz, passed or not, opens the gate.
QuizRequiredAnyAttempt(attempts, user, lesson) ==
    /\ HasQuiz(lesson)
    /\ QuizIsRequired(lesson)
    /\ ~\E a \in attempts : a[1] = user /\ a[2] = lesson

\* complete_lesson, lines 2058-2078: the required quiz has no passed attempt
QuizRequired(attempts, user, lesson) ==
    /\ HasQuiz(lesson)
    /\ QuizIsRequired(lesson)
    /\ ~\E a \in attempts : a[1] = user /\ a[2] = lesson /\ a[4] = TRUE

\* complete_lesson: the JSON response and the tables it leaves.
CompleteLessonResult(prog, certs, attempts, ord, user, lesson) ==
    IF QuizRequired(attempts, user, lesson)
    THEN [success |-> FALSE, quiz_required |-> TRUE, http |-> 400,
          progress |-> prog, certifications |-> certs]
    ELSE
    LET saved == [prog EXCEPT ![<<user, lesson>>] =
                     [@ EXCEPT !.exists = TRUE, !.completed = TRUE, !.status = "completed"]]
        course == LessonCourse(lesson)
        all_lessons == OrderedLessons(ord, course)
        is_last_lesson ==
            /\ all_lessons # <<>>
            /\ all_lessons[Len(all_lessons)] = lesson
            /\ Cardinality(CompletedLessons(saved, user, course)) = Len(all_lessons)
    IN  [success |-> TRUE, quiz_required |-> FALSE, http |-> 200,
         progress |-> saved,
         certifications |->
            IF is_last_lesson
            THEN [certs EXCEPT ![<<user, course>>] =
                     IF ~HasExam(course) THEN "passed"
                     ELSE IF @ = "none" THEN "not_eligible" ELSE @]
            ELSE certs]

CompleteLesson(user, lesson) ==
    LET res == CompleteLessonResult(progress, certifications, quiz_attempts, lesson_order,
                                    user, lesson)
    IN  /\ progress' = res.progress
        /\ certifications' = res.certifications
        /\ UNCHANGED <<ledgerVars, flowVars, lesson_order, quiz_attempts>>

\* ------------------------------------------------- prerequisite evaluator
\* Variant: the completion test is skipped, access alone satisfies.
PrerequisiteMissingAccessOnly(db, prog, t, user, prereq) ==
    ~HasCourseAccess(db, t, user, prereq).granted

\* check_course_prerequisites, lines 161-176: whether prereq joins `missing`
PrerequisiteMissing(db, prog, t, user, prereq) ==
    LET total_lessons == Cardinality(CourseLessons(prereq))
        completed_lessons ==
            Cardinality({l \in Lessons : /\ prog[<<user, l>>].exists
                                         /\ LessonCourse(l) = prereq
                                         /\ prog[<<user, l>>].completed})
    IN  IF ~HasCourseAccess(db, t, user, prereq).granted THEN TRUE
        ELSE total_lessons > 0 /\ completed_lessons < total_lessons

\* check_course_prerequisites, lines 159-176: the loop over
\* course.prerequisite_courses.all(), from position k of CourseOrder;
\* returns `missing` and the table the resolver calls leave.
RECURSIVE PrerequisiteLoop(_, _, _, _, _, _, _)
PrerequisiteLoop(db, prog, t, user, prereqs, k, missing) ==
    IF k > Len(CourseOrder) THEN [missing |-> missing, accesses |-> db.accesses]
    ELSE IF CourseOrder[k] \notin prereqs
    THEN PrerequisiteLoop(db, prog, t, user, prereqs, k + 1, missing)
    ELSE PrerequisiteLoop(
            [db EXCEPT !.accesses = HasCourseAccess(db, t, user, CourseOrder[k]).accesses],
            prog, t, user, prereqs, k + 1,
            IF PrerequisiteMissing(db, prog, t, user, CourseOrder[k])
            THEN Append(missing, CourseOrder[k]) ELSE missing)

\* check_course_prerequisites: (met, missing) and the table it leaves.
CheckCoursePrerequisites(db, prog, t, user, course) ==
    IF Prerequisites(course) = {}
    THEN [met |-> TRUE, missing |-> <<>>, accesses |-> db.accesses]
    ELSE LET res == PrerequisiteLoop(db, prog, t, user, Prerequisites(course), 1, <<>>)
         IN  [met |-> Len(res.missing) = 0, missing |-> res.missing,
              accesses |-> res.accesses]

\* ---------------------------------------------------- catalog partitioner
\* Variant: a row whose expires_at equals the present instant is left out.
GetUserAccessibleCoursesBoundaryOut(accs, t, user) ==
    IF ~IsAuthenticated(user) THEN {}
    ELSE {c \in Courses :
            \E i \in DOMAIN accs[<<user, c>>] :
                /\ accs[<<user, c>>][i].status = "unlocked"
                /\ ~(accs[<<user, c>>][i].expires_at # NoTime
                     /\ accs[<<user, c>>][i].expires_at <= t)}

\* get_user_accessible_courses
GetUserAccessibleCourses(accs, t, user) ==
    IF ~IsAuthenticated(user) THEN {}
    ELSE {c \in Courses :
            \E i \in DOMAIN accs[<<user, c>>] :
                /\ accs[<<user, c>>][i].status = "unlocked"
                /\ ~(accs[<<user, c>>][i].expires_at # NoTime
                     /\ accs[<<user, c>>][i].expires_at < t)}

\* get_courses_by_visibility
GetCoursesByVisibility(accs, t, user) ==
    IF ~IsAuthenticated(user)
    THEN [my_courses |-> {},
          available_to_unlock |-> {c \in Courses : Visibility(c) = "public"
                                                   /\ CourseStatus(c) = "active"},
          not_available |-> {}]
    ELSE LET my_courses == GetUserAccessibleCourses(accs, t, user)
             visible_courses == {c \in Courses :
                                    /\ Visibility(c) \in {"public", "members_only", "hidden"}
                                    /\ CourseStatus(c) = "active"}
         IN  [my_courses |-> my_courses,
              available_to_unlock |-> visible_courses \ my_courses,
              not_available |-> {c \in Courses : Visibility(c) = "private"
                                                 /\ CourseStatus(c) = "active"}]

\* student_dashboard, lines 2621-2645: the loop over available_to_unlock, in
\* the order .all() yields courses, from position k of CourseOrder; returns
\* the annotated entries and the table the prerequisite checks leave.
RECURSIVE AvailableLoop(_, _, _, _, _, _, _)
AvailableLoop(db, prog, t, user, available_to_unlock, k, data) ==
    IF k > Len(CourseOrder) THEN [data |-> data, accesses |-> db.accesses]
    ELSE IF CourseOrder[k] \notin available_to_unlock
    THEN AvailableLoop(db, prog, t, user, available_to_unlock, k + 1, data)
    ELSE LET res == CheckCoursePrerequisites(db, prog, t, user, CourseOrder[k])
         IN  AvailableLoop([db EXCEPT !.accesses = res.accesses], prog, t, user,
                           available_to_unlock, k + 1,
                           Append(data, [course |-> CourseOrder[k],
                                         prereqs_met |-> res.met,
                                         missing_prereqs |-> res.missing]))

\* student_dashboard: get_courses_by_visibility and the annotation of its
\* available_to_unlock bucket; the buckets, the entries and the table left.
AvailableCoursesData(db, prog, t, user) ==
    LET buckets == GetCoursesByVisibility(db.accesses, t, user)
        res == AvailableLoop(db, prog, t, user, buckets.available_to_unlock, 1, <<>>)
    IN  [buckets |-> buckets, available_courses_data |-> res.data,
         accesses |-> res.accesses]

\* student_dashboard, lines 2466-2471: the loop over my_courses, from position
\* k of CourseOrder; returns the courses listed and the table left.
RECURSIVE MyCoursesLoop(_, _, _, _, _, _)
MyCoursesLoop(db, t, user, my_courses, k, listed) ==
    IF k > Len(CourseOrder) THEN [listed |-> listed, accesses |-> db.accesses]
    ELSE IF CourseOrder[k] \notin my_courses
    THEN MyCoursesLoop(db, t, user, my_courses, k + 1, listed)
    ELSE LET res == HasCourseAccess(db, t, user, CourseOrder[k])
         IN  MyCoursesLoop([db EXCEPT !.accesses = res.accesses], t, user, my_courses,
                           k + 1,
                           IF res.granted THEN listed \cup {CourseOrder[k]} ELSE listed)

\* student_dashboard, lines 2558-2565: access created from a legacy enrolment
EnrollmentGrant(accs, user, course) ==
    GrantCourseAccess(accs, user, course, "purchase", NoRef, 0, NoRef, NoTime)

\* student_dashboard, lines 2548-2565: the loop over the user's enrolments, from
\* position k of CourseOrder; returns the table left.
RECURSIVE EnrollmentLoop(_, _, _, _, _, _)
EnrollmentLoop(db, enr, t, user, listed, k) ==
    IF k > Len(CourseOrder) THEN db.accesses
    ELSE IF <<user, CourseOrder[k]>> \notin enr \/ CourseOrder[k] \in listed
    THEN EnrollmentLoop(db, enr, t, user, listed, k + 1)
    ELSE LET res == HasCourseAccess(db, t, user, CourseOrder[k])
         IN  EnrollmentLoop(
                [db EXCEPT !.accesses =
                    IF res.granted THEN res.accesses
                    ELSE EnrollmentGrant(res.accesses, user, CourseOrder[k])],
                enr, t, user, listed, k + 1)

\* student_dashboard for a learner who is neither teacher nor staff: the
\* my_courses loop, the enrolment loop, then the annotation of
\* available_to_unlock, whose query runs when that loop starts.
StudentDashboardResult(db, enr, prog, t, user) ==
    LET buckets == GetCoursesByVisibility(db.accesses, t, user)
        mine == MyCoursesLoop(db, t, user, buckets.my_courses, 1, {})
        migrated == EnrollmentLoop([db EXCEPT !.accesses = mine.accesses], enr, t, user,
                                   mine.listed, 1)
        available == AvailableCoursesData([db EXCEPT !.accesses = migrated], prog, t, user)
    IN  [my_courses |-> mine.listed,
         available_courses_data |-> available.available_courses_data,
         not_available |-> buckets.not_available,
         accesses |-> available.accesses]

StudentDashboard(user) ==
    LET res == StudentDashboardResult(DB, enrollments, progress, now, user)
    IN  /\ RowCount(res.accesses) <= MaxAccesses
        /\ accesses' = res.accesses
        /\ UNCHANGED <<learnVars, flowVars, now, purchases, bundle_purchases>>

\* student_course_progress: the access check, then the enrolment created for
\* a learner who has none
StudentCourseProgress(user, course) ==
    LET res == HasCourseAccess(DB, now, user, course)
    IN  /\ accesses' = res.accesses
        /\ enrollments' = IF res.granted THEN enrollments \cup {<<user, course>>}
                          ELSE enrollments
        /\ UNCHANGED <<learnVars, gifts, deliveries, redemptions, now, purchases,
                       bundle_purchases>>

\* ------------------------------------------- the learner's side of the site
\* Request inputs of the learner's pages.
WatchPercentages == {50, 90}
CorrectAnswers == {1, 2}
QuizLessons == {2}
RevokedCourses == {"c1"}
CatalogGrants == {<<"c1", "">>, <<"c2", "">>, <<"c2", "1">>, <<"c3", "">>}

\* Lesson.order as staff set it: any positive integers, ties included.
LessonOrders ==
    {ord \in [Lessons -> 1..MaxOrder] : \A l \in Lessons : LessonCourse(l) # "c1" => ord[l] = 1}

InitLessons ==
    /\ now = 0
    /\ accesses = [pr \in Pairs |-> <<>>]
    /\ purchases = [p \in Purchases \cup GiftedPurchases |->
                        [status |-> "pending", provider_id |-> ""]]
    /\ bundle_purchases = <<>>
    /\ lesson_order \in LessonOrders
    /\ progress = [ul \in Users \X Lessons |-> NoProgress]
    /\ quiz_attempts = {}
    /\ certifications = [pr \in Pairs |-> "none"]
    /\ gifts = [g \in Gifts |-> [status |-> "pending", recipient_user |-> NoRef]]
    /\ deliveries = [d \in Deliveries |-> [pc |-> "idle", access |-> 0, memory |-> <<>>]]
    /\ enrollments = {}
    /\ redemptions = [u \in Redeemers |->
                         [pc |-> "idle", gift |-> [status |-> "pending",
                                                   recipient_user |-> NoRef]]]

NextLessons ==
    \/ \E user \in Learners, lesson \in CourseLessons("c1"), w \in WatchPercentages :
          UpdateVideoProgress(user, lesson, w)
    \/ \E user \in Learners, lesson \in QuizLessons, correct \in CorrectAnswers :
          LessonQuizView(user, lesson, correct)
    \/ \E user \in Learners, lesson \in CourseLessons("c1") : CompleteLesson(user, lesson)

SpecLessons == InitLessons /\ [][NextLessons]_vars

\* The catalog pages: one learner, every course, staff granting and revoking.
NextCatalog ==
    \/ Tick
    \/ \E user \in Learners, course \in Courses : ResolveAccess(user, course)
    \/ \E user \in Learners, g \in CatalogGrants :
          GrantCourseAccessView(user, g[1], "manual", g[2])
    \/ \E user \in Learners, course \in RevokedCourses, reason \in RevokeReasons :
          RevokeCourseAccessView(user, course, reason)
    \/ \E user \in Learners, lesson \in QuizLessons : LessonQuizView(user, lesson, 2)
    \/ \E user \in Learners, lesson \in Lessons : CompleteLesson(user, lesson)

SpecCatalog == Init /\ [][NextCatalog]_vars

\* The learner's pages between the grants and revocations of staff.
NextPages ==
    \/ Tick
    \/ \E user \in Learners, course \in CourseIds, d \in PostedDays :
          GrantCourseAccessView(user, course, "manual", d)
    \/ \E user \in Learners, course \in CourseIds, reason \in RevokeReasons :
          RevokeCourseAccessView(user, course, reason)
    \/ \E user \in Learners, course \in CourseIds : ResolveAccess(user, course)
    \/ \E user \in Learners, course \in CourseIds : StudentCourseProgress(user, course)
    \/ \E user \in Learners : StudentDashboard(user)

SpecPages == Init /\ [][NextPages]_vars

\* ------------------------------------------------------------------ claims
Contains(reason, token) == \E i \in DOMAIN reason : reason[i] = token

\* rows of a pair that are unlocked and whose expires_at is null or not passed
Effective(accs, t, user, course) ==
    {i \in DOMAIN accs[<<user, course>>] :
        /\ accs[<<user, course>>][i].status = "unlocked"
        /\ (accs[<<user, course>>][i].expires_at = NoTime
            \/ accs[<<user, course>>][i].expires_at >= t)}

\* rows of the whole table tied to CoursePurchase p
TiedToPurchase(accs, p) ==
    UNION {{<<pr, k>> : k \in {j \in DOMAIN accs[pr] : accs[pr][j].course_purchase = p}}
           : pr \in Pairs}

\* rows of a pair tied to BundlePurchase bp
TiedToBundle(accs, user, course, bp) ==
    {k \in DOMAIN accs[<<user, course>>] : accs[<<user, course>>][k].bundle_purchase = bp}

\* C1: whenever some row of (user, course) is unlocked with expires_at null or
\* not yet passed, has_course_access grants, whatever other rows the pair has.
C1_UnlockedUnexpiredGrants ==
    \A u \in Users, c \in Courses :
        Effective(accesses, now, u, c) # {}
            => HasCourseAccess(DB, now, u, c).granted = TRUE

\* C1 witness: an effective row shadowed by a more recent revoked or expired
\* row of the same pair, and the resolver grants.
C1_Witness ==
    \E u \in Users, c \in Courses :
        /\ Effective(accesses, now, u, c) # {}
        /\ \E j \in PairRows(accesses, u, c) :
              /\ j > First(Effective(accesses, now, u, c))
              /\ accesses[<<u, c>>][j].status \in {"revoked", "expired"}
        /\ HasCourseAccess(DB, now, u, c).granted

\* C2 as stated: for every unlocked row whose expires_at has passed,
\* has_course_access on its pair denies and leaves the row expired, and a
\* second resolution returns the same and writes nothing.
C2_LazyExpiryOfEveryPassedRow ==
    \A u \in Users, c \in Courses : \A i \in PairRows(accesses, u, c) :
        (/\ accesses[<<u, c>>][i].status = "unlocked"
         /\ accesses[<<u, c>>][i].expires_at # NoTime
         /\ accesses[<<u, c>>][i].expires_at < now)
        => LET first == HasCourseAccess(DB, now, u, c)
               second == HasCourseAccess([DB EXCEPT !.accesses = first.accesses], now, u, c)
           IN  /\ first.granted = FALSE
               /\ first.accesses[<<u, c>>][i].status = "expired"
               /\ second.granted = first.granted
               /\ second.reason = first.reason
               /\ second.accesses = first.accesses

\* C3: a manual grant without expiry on a pair that has no row makes the
\* resolver grant with a reason containing "Manual"; a revoke with reason
\* "refund" that follows makes it deny with a reason containing "refund".
C3_GrantThenRevokeScenario ==
    [][\A u \in Users, c \in CourseIds :
        /\ (/\ PairRows(accesses, u, c) = {}
            /\ GrantCourseAccessView(u, c, "manual", ""))
           => (/\ HasCourseAccess(DB', now', u, c).granted = TRUE
               /\ Contains(HasCourseAccess(DB', now', u, c).reason, "Manual"))
        /\ (/\ accesses[<<u, c>>] = <<NewAccess(u, c, "manual", Admin, 0, NoRef, NoTime)>>
            /\ RevokeCourseAccessView(u, c, "refund"))
           => (/\ HasCourseAccess(DB', now', u, c).granted = FALSE
               /\ Contains(HasCourseAccess(DB', now', u, c).reason, "refund"))
      ]_vars

\* C3 witness: the end of the scenario, the pair's only row is the manual
\* grant, revoked for "refund", and the resolver denies with that reason.
C3_Witness ==
    \E u \in Users, c \in CourseIds :
        /\ Len(accesses[<<u, c>>]) = 1
        /\ accesses[<<u, c>>][1].access_type = "manual"
        /\ accesses[<<u, c>>][1].expires_at = NoTime
        /\ accesses[<<u, c>>][1].status = "revoked"
        /\ HasCourseAccess(DB, now, u, c).granted = FALSE
        /\ Contains(HasCourseAccess(DB, now, u, c).reason, "refund")

\* C4 as stated: at most one row per (user, course) is unlocked.
C4_AtMostOneUnlocked ==
    \A u \in Users, c \in Courses :
        Cardinality({i \in PairRows(accesses, u, c) :
                        accesses[<<u, c>>][i].status = "unlocked"}) <= 1

C6_BundleGrantIdempotent ==
    \A bp \in DOMAIN bundle_purchases :
        LET u == bundle_purchases[bp].user
            once == GrantBundleAccess(DB, u, bp)
            twice == GrantBundleAccess([DB EXCEPT !.accesses = once], u, bp)
        IN  /\ twice = once
            /\ \A c \in CoursesToGrant(DB, bp) :
                  Cardinality(TiedToBundle(twice, u, c, bp)) = 1
            /\ \A c \in Courses \ CoursesToGrant(DB, bp) :
                  TiedToBundle(twice, u, c, bp) = {}

\* C6 witness: a bundle of two courses has been granted, one row per course.
C6_Witness ==
    \E bp \in DOMAIN bundle_purchases :
        /\ Cardinality(CoursesToGrant(DB, bp)) = 2
        /\ \A c \in CoursesToGrant(DB, bp) :
              Cardinality(TiedToBundle(accesses, bundle_purchases[bp].user, c, bp)) = 1
        /\ GrantBundleAccess(DB, bundle_purchases[bp].user, bp) = accesses

\* C7: in lesson_detail the first lesson of the canonical order (order, then
\* id) is always reachable; a later lesson is reachable iff every lesson
\* before it is completed by the user; so after an incomplete lesson every
\* later lesson is unreachable whatever its own completion state, and the
\* request for a lesson is locked exactly when the lesson is unreachable.
C7_StrictPrefixGate ==
    \A u \in Learners :
        LET all_lessons == OrderedLessons(lesson_order, "c1")
            done == CompletedLessons(progress, u, "c1")
            reachable == AccessibleLessons(progress, lesson_order, u, "c1")
        IN  /\ all_lessons[1] \in reachable
            /\ \A k \in 2..Len(all_lessons) :
                  all_lessons[k] \in reachable <=> \A j \in 1..(k - 1) : all_lessons[j] \in done
            /\ \A k \in DOMAIN all_lessons :
                  all_lessons[k] \notin done
                  => \A m \in (k + 1)..Len(all_lessons) : all_lessons[m] \notin reachable
            /\ \A l \in CourseLessons("c1") :
                  LessonDetailResult(progress, lesson_order, u, "c1", l).locked
                  <=> l \notin reachable

\* C7's case: two lessons tie on order, the first of the canonical order is
\* completed, the second is not, the third was completed out of turn, and
\* the reachable set is the first two.
C7_Witness ==
    LET all_lessons == OrderedLessons(lesson_order, "c1")
    IN  /\ \E a, b \in CourseLessons("c1") : a # b /\ lesson_order[a] = lesson_order[b]
        /\ CompletedLessons(progress, "u1", "c1") = {all_lessons[1], all_lessons[3]}
        /\ AccessibleLessons(progress, lesson_order, "u1", "c1")
              = {all_lessons[1], all_lessons[2]}
        /\ LessonDetailResult(progress, lesson_order, "u1", "c1", all_lessons[3]).redirect
              = all_lessons[2]

\* The prerequisite courses the evaluator should report for user and course.
MissingPrerequisites(user, course) ==
    {P \in Prerequisites(course) :
        \/ ~HasCourseAccess(DB, now, user, P).granted
        \/ /\ CourseLessons(P) # {}
           /\ \E l \in CourseLessons(P) : ~progress[<<user, l>>].completed}

\* C8: check_course_prerequisites returns met = TRUE iff missing is empty;
\* missing holds exactly the prerequisite courses the user has no granted
\* access to or that have a lesson and are not fully completed; a course
\* without prerequisites is met; prerequisites [A, B] are unmet when access
\* to A is lacking even if B is accessible and fully completed.
C8_PrerequisitesMetIffNothingMissing ==
    \A u \in Learners, c \in Courses :
        LET res == CheckCoursePrerequisites(DB, progress, now, u, c)
        IN  /\ res.met <=> res.missing = <<>>
            /\ {res.missing[i] : i \in DOMAIN res.missing} = MissingPrerequisites(u, c)
            /\ Len(res.missing) = Cardinality(MissingPrerequisites(u, c))
            /\ Prerequisites(c) = {} => res.met
            /\ (\E A \in Prerequisites(c) : ~HasCourseAccess(DB, now, u, A).granted)
               => ~res.met

\* C8's case: c3 requires c1 and c2; the learner has access to c2 and has
\* completed all of it, has no access to c1, and the evaluator answers unmet
\* with c1 alone missing; c2, which requires the lesson-less c3, is met.
C8_Witness ==
    /\ HasCourseAccess(DB, now, "u1", "c2").granted
    /\ \A l \in CourseLessons("c2") : progress[<<"u1", l>>].completed
    /\ ~HasCourseAccess(DB, now, "u1", "c1").granted
    /\ CheckCoursePrerequisites(DB, progress, now, "u1", "c3").met = FALSE
    /\ CheckCoursePrerequisites(DB, progress, now, "u1", "c3").missing = <<"c1">>
    /\ HasCourseAccess(DB, now, "u1", "c3").granted
    /\ CheckCoursePrerequisites(DB, progress, now, "u1", "c2").met = TRUE

\* C9 as stated: for every user the three buckets of
\* get_courses_by_visibility are pairwise disjoint.
C9_BucketsPairwiseDisjoint ==
    \A u \in Users \cup {Anon} :
        LET b == GetCoursesByVisibility(accesses, now, u)
        IN  /\ b.my_courses \cap b.available_to_unlock = {}
            /\ b.my_courses \cap b.not_available = {}
            /\ b.available_to_unlock \cap b.not_available = {}

\* C10 as stated: with no unlocked row for the pair, revoke_course_access
\* changes nothing and returns None, and neither it nor
\* revoke_course_access_view reports an error.
C10_RevokeNothingIsNoError ==
    \A u \in Users, c \in CourseIds, r \in RevokeReasons :
        RevokeTarget(accesses, u, c) = 0
        => /\ RevokeCourseAccess(accesses, now, u, c, Admin, r).accesses = accesses
           /\ RevokeCourseAccess(accesses, now, u, c, Admin, r).record = 0
           /\ RevokeCourseAccessViewResult(accesses, now, u, c, r).accesses = accesses
           /\ RevokeCourseAccessViewResult(accesses, now, u, c, r).success = TRUE
           /\ RevokeCourseAccessViewResult(accesses, now, u, c, r).http = 200

\* no CourseAccess row exists for the pair (an anonymous user has none)
NoRecord(accs, user, course) == user \notin Users \/ accs[<<user, course>>] = <<>>

\* C11, amended: for every authenticated user and course with no row for the
\* pair, has_course_access returns granted = FALSE, record None and reason
\* "No access found", and writes nothing.
C11_NoRecordNoAccessFound ==
    \A u \in Users, c \in Courses :
        NoRecord(accesses, u, c)
        => HasCourseAccess(DB, now, u, c)
              = [granted |-> FALSE, record |-> 0, reason |-> <<"No", "access", "found">>,
                 accesses |-> accesses]

\* C11's case: a pair without rows is resolved while the same user holds rows
\* on another course.
C11_Witness ==
    \E u \in Users, c, d \in Courses :
        /\ NoRecord(accesses, u, c)
        /\ accesses[<<u, d>>] # <<>>
        /\ HasCourseAccess(DB, now, u, c).reason = <<"No", "access", "found">>
        /\ HasCourseAccess(DB, now, u, c).accesses = accesses

\* C11 as stated: the same for every user, the unauthenticated one included.
C11_EveryUserNoAccessFound ==
    \A u \in Users \cup {Anon}, c \in Courses :
        NoRecord(accesses, u, c)
        => /\ HasCourseAccess(DB, now, u, c).granted = FALSE
           /\ HasCourseAccess(DB, now, u, c).record = 0
           /\ HasCourseAccess(DB, now, u, c).reason = <<"No", "access", "found">>
           /\ HasCourseAccess(DB, now, u, c).accesses = accesses

\* the user holds a LessonQuizAttempt with passed = TRUE for the lesson's quiz
HasPassedQuiz(user, lesson) ==
    \E a \in quiz_attempts : a[1] = user /\ a[2] = lesson /\ a[4] = TRUE

C13_RedeemGiftGrantsAsPurchase ==
    \A u \in Users \cup {Anon}, g \in Gifts :
        LET res == RedeemGiftResult(DB, gifts, now, u, g)
            p == GiftCoursePurchase(g)
            c == GiftCourse(g)
        IN  IF /\ gifts[g].status = "sent"
               /\ ~(GiftExpiresAt(g) # NoTime /\ now > GiftExpiresAt(g))
               /\ gifts[g].recipient_user = NoRef
               /\ u \in Users
               /\ Lower(UserEmail(u)) = Lower(GiftRecipientEmail(g))
            THEN /\ res.redeemed
                 /\ res.accesses = GrantPurchaseAccess(DB, u, c, p).accesses
                 /\ Cardinality(TiedToPurchase(res.accesses, p)) = 1
                 /\ \A x \in TiedToPurchase(res.accesses, p) :
                       /\ x[1] = <<u, c>>
                       /\ res.accesses[x[1]][x[2]].status = "unlocked"
                       /\ res.accesses[x[1]][x[2]].expires_at = NoTime
                 /\ res.gifts[g] = [status |-> "redeemed", recipient_user |-> u]
            ELSE /\ ~res.redeemed
                 /\ res.accesses = accesses

\* C13's case: the gift was redeemed by the user whose address differs from
\* recipient_email in case only, and the row tied to the gift's purchase is
\* on that user's pair next to a row of another source.
C13_Witness ==
    \E g \in Gifts :
        /\ gifts[g] = [status |-> "redeemed", recipient_user |-> "u1"]
        /\ UserEmail("u1") # GiftRecipientEmail(g)
        /\ TiedToPurchase(accesses, GiftCoursePurchase(g)) # {}
        /\ \A x \in TiedToPurchase(accesses, GiftCoursePurchase(g)) :
              x[1] = <<"u1", GiftCourse(g)>>
        /\ Len(accesses[<<"u1", GiftCourse(g)>>]) > 1
        /\ RedeemGiftResult(DB, gifts, now, "u1", g).accesses = accesses

\* C14 as stated: when no unlocked, unexpired row remains for the pair,
\* has_course_access decides from the most recently granted row: if its
\* status is expired or its expires_at has passed, it denies with "Access has
\* expired" and the row is or becomes expired; otherwise, if the row is
\* revoked, it denies with a reason that includes revocation_reason.
C14_DecidesFromMostRecentRow ==
    \A u \in Users, c \in Courses :
        (Effective(accesses, now, u, c) = {} /\ accesses[<<u, c>>] # <<>>)
        => LET latest == Len(accesses[<<u, c>>])
               row == accesses[<<u, c>>][latest]
               res == HasCourseAccess(DB, now, u, c)
           IN  IF row.status = "expired" \/ (row.expires_at # NoTime /\ row.expires_at < now)
               THEN /\ res.granted = FALSE
                    /\ res.reason = <<"Access", "has", "expired">>
                    /\ res.accesses[<<u, c>>][latest].status = "expired"
               ELSE row.status = "revoked"
                    => /\ res.granted = FALSE
                       /\ Contains(res.reason, row.revocation_reason)

\* C15 as stated: when two deliveries of the same confirmed purchase run
\* grant_purchase_access with their reads and writes interleaved, the final
\* state holds exactly one row tied to the purchase.
C15_OneRowAfterOverlappingDeliveries ==
    (\A d \in Deliveries : deliveries[d].pc = "done")
    => Cardinality(TiedToPurchase(accesses, DeliveredPurchase)) = 1


\* C16 as stated: in every state reached through complete_lesson,
\* update_video_progress and lesson_quiz_view, a progress row that is completed
\* for a lesson whose quiz is required implies a passed attempt of that user at
\* that quiz.
C16_CompletedImpliesPassedRequiredQuiz ==
    \A user \in Users, lesson \in Lessons :
        (/\ progress[<<user, lesson>>].exists
         /\ progress[<<user, lesson>>].completed
         /\ HasQuiz(lesson)
         /\ QuizIsRequired(lesson))
        => HasPassedQuiz(user, lesson)


\* C17 as stated: lesson_detail serves a lesson only when has_course_access
\* grants; a logged-in user without access to the course is never shown one of
\* its lessons.
C17_LessonShownOnlyWithAccess ==
    \A user \in Users, lesson \in Lessons :
        LessonDetailPage(progress, lesson_order, user, LessonCourse(lesson), lesson).page
            = "lesson"
        => HasCourseAccess(DB, now, user, LessonCourse(lesson)).granted


\* C18: a successful revoke_course_access changes exactly one row: the most
\* recently granted unlocked row of the pair, whatever its expires_at, becomes
\* revoked with revoked_at, revoked_by and revocation_reason stamped; every
\* other row is unchanged and no row is created or deleted.
C18_RevokeChangesOnlyLatestUnlocked ==
    \A u \in Users, c \in CourseIds, r \in RevokeReasons :
        LET res == RevokeCourseAccess(accesses, now, u, c, Admin, r)
            rows == accesses[<<u, c>>]
            unlocked == {i \in DOMAIN rows : rows[i].status = "unlocked"}
        IN  res.record # 0
            => /\ res.record \in unlocked
               /\ \A j \in unlocked : j <= res.record
               /\ \A pair \in Pairs : Len(res.accesses[pair]) = Len(accesses[pair])
               /\ \A pair \in Pairs : \A i \in DOMAIN accesses[pair] :
                     (pair # <<u, c>> \/ i # res.record)
                     => res.accesses[pair][i] = accesses[pair][i]
               /\ res.accesses[<<u, c>>][res.record] =
                     [rows[res.record] EXCEPT !.status = "revoked", !.revoked_at = now,
                                              !.revoked_by = Admin,
                                              !.revocation_reason = r]

\* C18 witness: of two rows of a pair the later one was revoked after its
\* expires_at had passed, and the earlier one is still unlocked.
C18_Witness ==
    \E u \in Users, c \in CourseIds :
        /\ Len(accesses[<<u, c>>]) = 2
        /\ accesses[<<u, c>>][1].status = "unlocked"
        /\ accesses[<<u, c>>][2].status = "revoked"
        /\ accesses[<<u, c>>][2].revoked_by = Admin
        /\ accesses[<<u, c>>][2].expires_at # NoTime
        /\ accesses[<<u, c>>][2].revoked_at > accesses[<<u, c>>][2].expires_at


\* C19: the only write of has_course_access is the lazy expiry: a call changes
\* at most one row, only its status, from a value other than expired to
\* expired, only when the row's expires_at is set and in the past, and only
\* when the call denies; a granting call and a call on a row that is already
\* expired write nothing.
C19_LazyExpiryIsTheOnlyWrite ==
    \A u \in Users \cup {Anon}, c \in Courses :
        LET res == HasCourseAccess(DB, now, u, c)
            changed == {x \in {<<pair, i>> : pair \in Pairs, i \in 1..MaxAccesses} :
                           /\ x[2] \in DOMAIN accesses[x[1]]
                           /\ res.accesses[x[1]][x[2]] # accesses[x[1]][x[2]]}
        IN  /\ \A pair \in Pairs : Len(res.accesses[pair]) = Len(accesses[pair])
            /\ Cardinality(changed) <= 1
            /\ \A x \in changed :
                  LET old == accesses[x[1]][x[2]]
                  IN  /\ x = <<<<u, c>>, res.record>>
                      /\ res.accesses[x[1]][x[2]] = [old EXCEPT !.status = "expired"]
                      /\ old.status # "expired"
                      /\ old.expires_at # NoTime
                      /\ old.expires_at < now
                      /\ res.granted = FALSE
            /\ res.granted => res.accesses = accesses
            /\ (/\ IsAuthenticated(u)
                /\ First(PairRows(accesses, u, c)) # 0
                /\ accesses[<<u, c>>][First(PairRows(accesses, u, c))].status = "expired")
               => res.accesses = accesses

\* C19 witness: the resolver has marked the later of two passed rows of a pair
\* expired and left the earlier one as it was.
C19_Witness ==
    \E u \in Users, c \in Courses :
        /\ Len(accesses[<<u, c>>]) = 2
        /\ accesses[<<u, c>>][2].status = "expired"
        /\ accesses[<<u, c>>][1].status = "unlocked"
        /\ accesses[<<u, c>>][1].expires_at # NoTime
        /\ accesses[<<u, c>>][1].expires_at < now
        /\ HasCourseAccess(DB, now, u, c).accesses = accesses


\* C20 as stated: computing the catalog partition of a user, that is
\* get_courses_by_visibility and the dashboard's annotation of the
\* available_to_unlock bucket with the prerequisite checks, creates no access
\* row and changes no field of an existing one.
C20_CatalogPartitionIsReadOnly ==
    \A u \in Users :
        AvailableCoursesData(DB, progress, now, u).accesses = accesses


\* C21: for every authenticated user and course, the course is in
\* get_user_accessible_courses(user), hence in my_courses, exactly when
\* has_course_access(user, course) grants at the same instant, the boundary
\* expires_at = now included.
C21_MyCoursesEqualsResolver ==
    \A u \in Users, c \in Courses :
        /\ (c \in GetUserAccessibleCourses(accesses, now, u))
              <=> HasCourseAccess(DB, now, u, c).granted
        /\ GetCoursesByVisibility(accesses, now, u).my_courses
              = GetUserAccessibleCourses(accesses, now, u)

\* C21 witness: a pair's only unlocked row expires at the present instant; the
\* course is in my_courses and the resolver grants.
C21_Witness ==
    \E u \in Users, c \in Courses :
        /\ \E i \in PairRows(accesses, u, c) :
              /\ accesses[<<u, c>>][i].status = "unlocked"
              /\ accesses[<<u, c>>][i].expires_at = now
        /\ \A i \in PairRows(accesses, u, c) :
              accesses[<<u, c>>][i].status = "unlocked"
              => accesses[<<u, c>>][i].expires_at = now
        /\ c \in GetCoursesByVisibility(accesses, now, u).my_courses
        /\ HasCourseAccess(DB, now, u, c).granted


\* C22: a request for a lesson outside the reachable set is redirected to the
\* first lesson of the canonical order that is not completed; that lesson
\* exists, is in the reachable set, and the redirected request is served
\* without a further redirect.
C22_LockedLessonRedirectsToServedLesson ==
    \A u \in Learners, l \in CourseLessons("c1") :
        LET all_lessons == OrderedLessons(lesson_order, "c1")
            done == CompletedLessons(progress, u, "c1")
            res == LessonDetailResult(progress, lesson_order, u, "c1", l)
        IN  res.locked
            => /\ res.redirect # 0
               /\ res.redirect \notin done
               /\ \E k \in DOMAIN all_lessons :
                     /\ all_lessons[k] = res.redirect
                     /\ \A j \in 1..(k - 1) : all_lessons[j] \in done
               /\ res.redirect \in AccessibleLessons(progress, lesson_order, u, "c1")
               /\ LessonDetailResult(progress, lesson_order, u, "c1", res.redirect)
                     = [locked |-> FALSE, redirect |-> 0]
               /\ LessonDetailPage(progress, lesson_order, u, "c1", res.redirect)
                     = [page |-> "lesson", lesson |-> res.redirect]

\* C22 witness: the first lesson of the canonical order is completed, the
\* second is not and has a higher id than the third, and a request for the
\* third is redirected to the second, which is served.
C22_Witness ==
    LET all_lessons == OrderedLessons(lesson_order, "c1")
    IN  /\ all_lessons[2] > all_lessons[3]
        /\ CompletedLessons(progress, "u1", "c1") = {all_lessons[1]}
        /\ LessonDetailPage(progress, lesson_order, "u1", "c1", all_lessons[3])
              = [page |-> "redirect", lesson |-> all_lessons[2]]
        /\ LessonDetailPage(progress, lesson_order, "u1", "c1", all_lessons[2]).page
              = "lesson"


\* The best score of the user's attempts at the quizzes of the course's lessons
\* (NoScore when there is no attempt).
BestQuizScore(user, course) ==
    LET scores == {a[3] : a \in {b \in quiz_attempts :
                                    b[1] = user /\ LessonCourse(b[2]) = course}}
    IN  IF scores = {} THEN NoScore
        ELSE CHOOSE x \in scores : \A y \in scores : y <= x

\* C23 as stated: for a course whose required_quiz_score is set,
\* check_course_prerequisites reports met=false unless the user's quiz score
\* reaches required_quiz_score.
C23_RequiredQuizScoreEnforced ==
    \A u \in Users, c \in Courses :
        (/\ RequiredQuizScore(c) # NoScore
         /\ CheckCoursePrerequisites(DB, progress, now, u, c).met)
        => BestQuizScore(u, c) >= RequiredQuizScore(c)


\* C24: a row whose expires_at is null never has status expired, and no call
\* of has_course_access changes its status.
C24_LifetimeRowNeverExpired ==
    \A u \in Users, c \in Courses : \A i \in PairRows(accesses, u, c) :
        accesses[<<u, c>>][i].expires_at = NoTime
        => /\ accesses[<<u, c>>][i].status # "expired"
           /\ \A v \in Users \cup {Anon}, d \in Courses :
                 HasCourseAccess(DB, now, v, d).accesses[<<u, c>>][i].status
                    = accesses[<<u, c>>][i].status

\* C24 witness: a pair holds a revoked lifetime row beside a row the resolver
\* has marked expired.
C24_Witness ==
    \E u \in Users, c \in Courses : \E i, j \in PairRows(accesses, u, c) :
        /\ accesses[<<u, c>>][i].expires_at = NoTime
        /\ accesses[<<u, c>>][i].status = "revoked"
        /\ accesses[<<u, c>>][j].expires_at # NoTime
        /\ accesses[<<u, c>>][j].status = "expired"


\* C25 as stated: once a revocation has left a pair without effective access,
\* a view of the student dashboard leaves has_course_access denying for the
\* pair, also for a user enrolled in the course.
C25_RevocationSurvivesDashboard ==
    \A u \in Learners, c \in Courses :
        (/\ \E i \in PairRows(accesses, u, c) : accesses[<<u, c>>][i].status = "revoked"
         /\ ~HasCourseAccess(DB, now, u, c).granted)
        => ~HasCourseAccess(
               [DB EXCEPT !.accesses =
                   StudentDashboardResult(DB, enrollments, progress, now, u).accesses],
               now, u, c).granted


\* C26 as stated: revoked is terminal for a row, no later operation sets its
\* status back to unlocked; consequently every unlocked row has revoked_at
\* null.
C26_UnlockedRowNeverRevokedBefore ==
    \A u \in Users, c \in Courses : \A i \in PairRows(accesses, u, c) :
        accesses[<<u, c>>][i].status = "unlocked"
        => /\ accesses[<<u, c>>][i].revoked_at = NoTime
           /\ accesses[<<u, c>>][i].revoked_by = NoRef


\* C27 as stated: in every state reached through complete_lesson and
\* update_video_progress, the lessons of a course that a user has completed
\* are a prefix of the canonical lesson order.
C27_CompletedLessonsArePrefix ==
    \A u \in Users :
        LET all_lessons == OrderedLessons(lesson_order, "c1")
            done == CompletedLessons(progress, u, "c1")
        IN  \A k \in DOMAIN all_lessons :
               all_lessons[k] \in done => \A j \in 1..(k - 1) : all_lessons[j] \in done


\* C28 as stated: however the redeem_gift requests of distinct logged-in users
\* with a matching address interleave, at most one user ends up with a row tied
\* to the gift's purchase, and that user is the gift's recipient_user.
C28_GiftGivesAccessToOneUser ==
    (\A u \in Redeemers : redemptions[u].pc = "done")
    => LET holders == {x[1][1] : x \in TiedToPurchase(accesses,
                                                      GiftCoursePurchase(RedeemedGift))}
       IN  /\ Cardinality(holders) <= 1
           /\ \A u \in holders : gifts[RedeemedGift].recipient_user = u


\* C29 as stated: after bulk_grant_access_view completes for a selection of
\* existing users and courses, has_course_access grants for every selected
\* pair, whatever rows the pair held before.
C29_BulkGrantGivesEffectiveAccess ==
    \A us \in BulkUserIds, cs \in BulkCourseIds, t \in GrantTypes, d \in PostedDays :
        (us # <<>> /\ cs # <<>>)
        => LET res == BulkLoop(accesses, us, cs, t, ExpiresAt(now, d), 1, 1)
           IN  \A i \in DOMAIN us, j \in DOMAIN cs :
                  (us[i] \in Users /\ cs[j] \in Courses)
                  => HasCourseAccess([DB EXCEPT !.accesses = res], now,
                                     us[i], cs[j]).granted


\* C30 as stated: in every state reached through update_video_progress and
\* complete_lesson, a progress row has completed=true exactly when its status
\* is completed.
C30_CompletedIffStatusCompleted ==
    \A u \in Users, l \in Lessons :
        progress[<<u, l>>].exists
        => (progress[<<u, l>>].completed <=> progress[<<u, l>>].status = "completed")

====
